---- MODULE Spec2Model ----
(***************************************************************************)
(* A model of lib/saml.js: the Saml session (login-page discovery, the     *)
(* credential POST, the cached SAML response), the role parser and the     *)
(* role-assumption fan-out of authenticate.                                 *)
(*                                                                         *)
(* JavaScript strings are sequences of tokens (each token a character or a *)
(* fixed run of characters); undefined and null are the one-token          *)
(* sequences Undefined and Null, which no document contains.               *)
(***************************************************************************)
EXTENDS Integers, Sequences, FiniteSets, TLC

\* ------------------------------------------------------------------ bounds
MaxCalls == 2      \* calls made on the session in one behaviour
MaxLogins == 3     \* calls made on a session of getSamlResponse calls only
MaxTags == 2       \* open tags of a scanned page (pure-function specifications)
MaxTail == 5       \* characters of raw text after an errorText element
MaxTexts == 2      \* text nodes of a decoded assertion
MaxTextLen == 3    \* tokens of one text node

\* --------------------------------------------------------------- JS values
Undefined == <<"#undefined">>
Null == <<"#null">>
EmptyStr == <<>>

\* JavaScript truthiness of a string-or-undefined-or-null value.
Truthy(v) == v # EmptyStr /\ v # Undefined /\ v # Null

Min(a, b) == IF a <= b THEN a ELSE b

\* All sequences over S of length at most n.
SeqsUpTo(S, n) == UNION {[1..k -> S] : k \in 0..n}

\* String.prototype.substr(start, length) with start given as the number of
\* characters before it.
Substr(s, start, len) == SubSeq(s, start + 1, Min(Len(s), start + len))

\* ------------------------------------------------------- settled promises
NoError == [kind |-> "none", message |-> EmptyStr]
FetchError == [kind |-> "FetchError", message |-> <<"network">>]
SaxError == [kind |-> "SaxError", message |-> <<"Unexpected end">>]
TypeError == [kind |-> "TypeError", message |-> <<"type">>]
\* new Error(message)
Error(message) == [kind |-> "Error", message |-> message]

Resolved(v) == [state |-> "resolved", value |-> v, error |-> NoError]
Rejected(e) == [state |-> "rejected", value |-> Undefined, error |-> e]

\* ---------------------------------------------------------- HTML documents
\* A document as the shared sax parser reports it: its open tags in document
\* order and whether it ends inside markup (sax then reports "Unexpected
\* end" through onerror before it calls onend).  A tag carries its name as
\* written, the attributes the callbacks read (Undefined when absent) and
\* tail, the raw document text from the parser position just behind the tag.
Tag(name, id, nm, action, value, tail) ==
    [name |-> name, id |-> id, nm |-> nm, action |-> action, value |-> value,
     tail |-> tail]
Doc(tags, truncated) == [tags |-> tags, truncated |-> truncated]

\* sax.parser(false, { lowercase: true }): tag names are reported in lower case.
Lower(name) ==
    CASE name = "FORM" -> "form"
      [] name = "INPUT" -> "input"
      [] OTHER -> name

\* The onopentag callback of getLoginPath applied to the tags from i on.
RECURSIVE LoginPathFrom(_, _, _)
LoginPathFrom(tags, i, loginPath) ==
    IF i > Len(tags) THEN loginPath
    ELSE LoginPathFrom(tags, i + 1,
            IF Lower(tags[i].name) = "form" /\ tags[i].id = <<"loginForm">>
            THEN tags[i].action
            ELSE loginPath)

\* The promise getLoginPath builds around one parse of body: onerror rejects
\* first, onend resolves with whatever loginPath holds.
ScanLoginPage(body) ==
    IF body.truncated THEN Rejected(SaxError)
    ELSE Resolved(LoginPathFrom(body.tags, 1, EmptyStr))

\* body.substr(this._parser.position, 300)
ErrorWindow == 300
DirtyError(tag) == Substr(tag.tail, 0, ErrorWindow)

\* dirtyError.match(/^(.*)<\//): the lengths k of a prefix without a line
\* break that "</" directly follows; the greedy group takes the longest.
CloseMatches(d) ==
    {k \in 0..(Len(d) - 2) :
        /\ d[k + 1] = "<"
        /\ d[k + 2] = "/"
        /\ \A j \in 1..k : d[j] # "LF"}
MaxOf(S) == CHOOSE k \in S : \A m \in S : m <= k
MinOf(S) == CHOOSE k \in S : \A m \in S : k <= m
ErrorTextOf(tag) ==
    LET d == DirtyError(tag)
    IN IF CloseMatches(d) = {} THEN d ELSE SubSeq(d, 1, MaxOf(CloseMatches(d)))

\* The onopentag callback of _login applied to the tags from i on; acc holds
\* the closure variables samlResponse and errorText.
RECURSIVE LoginScanFrom(_, _, _)
LoginScanFrom(tags, i, acc) ==
    IF i > Len(tags) THEN acc
    ELSE LoginScanFrom(tags, i + 1,
            [samlResponse |->
                IF Lower(tags[i].name) = "input" /\ tags[i].nm = <<"SAMLResponse">>
                THEN tags[i].value
                ELSE acc.samlResponse,
             errorText |->
                IF tags[i].id = <<"errorText">>
                THEN ErrorTextOf(tags[i])
                ELSE acc.errorText])

\* A parse of the POST's response body that lets a SAMLResponse found win
\* over an error message found.
ScanLoginResponsePrefersResponse(body) ==
    LET acc == LoginScanFrom(body.tags, 1,
                    [samlResponse |-> EmptyStr, errorText |-> EmptyStr])
    IN IF body.truncated THEN Rejected(SaxError)
       ELSE IF Truthy(acc.samlResponse) THEN Resolved(acc.samlResponse)
       ELSE IF Truthy(acc.errorText) THEN Rejected(Error(acc.errorText))
       ELSE Resolved(acc.samlResponse)

\* The promise _login builds around one parse of the POST's response body.
ScanLoginResponse(body) ==
    LET acc == LoginScanFrom(body.tags, 1,
                    [samlResponse |-> EmptyStr, errorText |-> EmptyStr])
    IN IF body.truncated THEN Rejected(SaxError)
       ELSE IF Truthy(acc.errorText) THEN Rejected(Error(acc.errorText))
       ELSE Resolved(acc.samlResponse)

\* ------------------------------------------------------------ the assertion
\* The decoded assertion is a string over XmlAlphabet: "<t>" is a complete
\* piece of markup, "<t" markup the document ends inside, the rest is text.
ArnPrefix == "arn:aws:iam::"
Digits == {"1", "2"}
TextTokens == {ArnPrefix, ",", ":role", "/A", ":saml-provider/P"} \cup Digits
XmlAlphabet == TextTokens \cup {"<t>", "<t"}

\* Base64 of one token; the raw assertion is the sequence of encoded tokens.
B64Encode(tok) == "b64:" \o tok
B64(xml) == [i \in 1..Len(xml) |-> B64Encode(xml[i])]

\* Buffer.from(s, 'base64').toString('utf8'): characters that are not base64
\* are skipped, so decoding a string never fails.
RECURSIVE B64DecodeFrom(_, _)
B64DecodeFrom(raw, i) ==
    IF i > Len(raw) THEN <<>>
    ELSE LET hits == {t \in XmlAlphabet : B64Encode(t) = raw[i]}
         IN (IF hits = {} THEN <<>> ELSE <<CHOOSE t \in hits : TRUE>>)
            \o B64DecodeFrom(raw, i + 1)
parseSamlResponse(samlResponse) == B64DecodeFrom(samlResponse, 1)

\* The text nodes sax reports through ontext, in document order: the maximal
\* runs of text between markup.
RECURSIVE TextNodesFrom(_, _, _)
TextNodesFrom(xml, i, run) ==
    IF i > Len(xml) THEN (IF run = <<>> THEN <<>> ELSE <<run>>)
    ELSE IF xml[i] \in TextTokens THEN TextNodesFrom(xml, i + 1, Append(run, xml[i]))
    ELSE (IF run = <<>> THEN <<>> ELSE <<run>>) \o TextNodesFrom(xml, i + 1, <<>>)
TextNodes(xml) == TextNodesFrom(xml, 1, <<>>)
XmlTruncated(xml) == Len(xml) > 0 /\ xml[Len(xml)] = "<t"

\* text.split(','): the segments between commas, at least one.
RECURSIVE SplitFrom(_, _, _)
SplitFrom(text, i, seg) ==
    IF i > Len(text) THEN <<seg>>
    ELSE IF text[i] = "," THEN <<seg>> \o SplitFrom(text, i + 1, <<>>)
    ELSE SplitFrom(text, i + 1, Append(seg, text[i]))
Split(text) == SplitFrom(text, 1, <<>>)

\* /^arn:aws:iam::.*/.test(text)
IsArnText(text) == Len(text) > 0 /\ text[1] = ArnPrefix

\* const [principalArn, roleArn] = text.split(','); a missing second segment
\* destructures to undefined.
RoleOf(text) ==
    LET parts == Split(text)
    IN [principalArn |-> parts[1],
        roleArn |-> IF Len(parts) >= 2 THEN parts[2] ELSE Undefined]

\* The ontext callback of parseRoles applied to the text nodes from i on.
RECURSIVE RolesFrom(_, _)
RolesFrom(texts, i) ==
    IF i > Len(texts) THEN <<>>
    ELSE (IF IsArnText(texts[i]) THEN <<RoleOf(texts[i])>> ELSE <<>>)
         \o RolesFrom(texts, i + 1)

\* parseRoles(samlRawResponse): Buffer.from throws a TypeError on undefined
\* or null; onerror rejects before onend resolves.
parseRoles(samlRawResponse) ==
    IF samlRawResponse = Undefined \/ samlRawResponse = Null THEN Rejected(TypeError)
    ELSE LET xml == parseSamlResponse(samlRawResponse)
         IN IF XmlTruncated(xml) THEN Rejected(SaxError)
            ELSE Resolved(RolesFrom(TextNodes(xml), 1))

\* ------------------------------------------------------------- the accounts
\* account.Arn.match(/(\d+):role/): the positions where a run of digits
\* directly followed by ":role" starts; the match is the leftmost, and its
\* group the whole run of digits from there.
RECURSIVE DigitRunEnd(_, _)
DigitRunEnd(arn, i) ==
    IF i < Len(arn) /\ arn[i + 1] \in Digits THEN DigitRunEnd(arn, i + 1) ELSE i
AccountIdStarts(arn) ==
    {i \in 1..Len(arn) :
        /\ arn[i] \in Digits
        /\ DigitRunEnd(arn, i) < Len(arn)
        /\ arn[DigitRunEnd(arn, i) + 1] = ":role"}
HasAccountId(arn) == arn # Undefined /\ AccountIdStarts(arn) # {}
AccountIdOf(arn) ==
    LET i == MinOf(AccountIdStarts(arn))
    IN SubSeq(arn, i, DigitRunEnd(arn, i))

\* config.accountMapping: absent (undefined) or an object from account id to
\* account name.
NoMapping == [defined |-> FALSE, entries |-> <<>>]
Mapping(entries) == [defined |-> TRUE, entries |-> entries]

\* config.accountMapping[accountId] || accountId, for a mapping that is there.
NameOf(accountMapping, accountId) ==
    IF accountId \in DOMAIN accountMapping.entries
       /\ Truthy(accountMapping.entries[accountId])
    THEN accountMapping.entries[accountId]
    ELSE accountId

\* What sts.assumeRoleWithSAML(params).promise() settles with.
Credentials(k) ==
    [AccessKeyId |-> <<"AKIA", k>>, SecretAccessKey |-> <<"secret", k>>,
     SessionToken |-> <<"token", k>>]
\* What assumeRole resolves with: Object.assign({ Arn: roleArn }, Credentials)
\* from then, and undefined from catch, whose callback returns nothing.
NoAccount == [defined |-> FALSE, Arn |-> Undefined, creds |-> Credentials("none")]
assumeRoleResult(roleArn, ok, k) ==
    IF ok THEN [defined |-> TRUE, Arn |-> roleArn, creds |-> Credentials(k)]
    ELSE NoAccount

\* results.filter(Boolean)
RECURSIVE FilterBoolean(_, _)
FilterBoolean(results, i) ==
    IF i > Len(results) THEN <<>>
    ELSE (IF results[i].defined THEN <<results[i]>> ELSE <<>>)
         \o FilterBoolean(results, i + 1)

\* The callback of accounts.map throws a TypeError when match returns null
\* (destructuring null), when Arn is undefined, or when config.accountMapping
\* is undefined.
MapThrows(cfg, accounts) ==
    \E i \in 1..Len(accounts) :
        ~HasAccountId(accounts[i].Arn) \/ ~cfg.accountMapping.defined
AccountsList(cfg, accounts) ==
    IF MapThrows(cfg, accounts) THEN Rejected(TypeError)
    ELSE Resolved([i \in 1..Len(accounts) |->
            [Arn |-> accounts[i].Arn,
             name |-> NameOf(cfg.accountMapping, AccountIdOf(accounts[i].Arn))]])

\* ------------------------------------------------- inputs of the session
\* The configurations new Saml(params) is given.
Configs ==
    {[domain |-> <<"CORP">>, accountMapping |-> m] :
        m \in {NoMapping,
               Mapping([id \in {<<"1">>} |-> <<"prod">>]),
               Mapping([id \in {<<"1">>} |-> EmptyStr])}}

Usernames == {<<"alice">>, <<"bob">>}
Passwords == {<<"secret">>}
LoginPaths == {<<"/adfs/ls/auth">>, <<"/other">>}

NoAttr == Undefined
Div == Tag("div", NoAttr, NoAttr, NoAttr, NoAttr, EmptyStr)
LoginForm(name, action) == Tag(name, <<"loginForm">>, NoAttr, action, NoAttr, EmptyStr)
SamlInput(value) == Tag("input", NoAttr, <<"SAMLResponse">>, NoAttr, value, EmptyStr)
ErrorSpan(tail) == Tag("span", <<"errorText">>, NoAttr, NoAttr, NoAttr, tail)

\* The login pages the IdP answers the GET with.
LoginPages ==
    {Doc(<<LoginForm("form", <<"/adfs/ls/auth">>)>>, FALSE),
     Doc(<<Div>>, FALSE),
     Doc(<<LoginForm("form", NoAttr)>>, FALSE),
     Doc(<<LoginForm("form", <<"/adfs/ls/auth">>)>>, TRUE)}

\* The assertions the IdP issues, before base64.
Provider(id) == <<ArnPrefix, id, ":saml-provider/P">>
RoleText(id) == Provider(id) \o <<",", ArnPrefix, id, ":role", "/A">>
Assertions ==
    {<<"<t>">>,
     <<"<t>">> \o RoleText("1") \o <<"<t>">> \o RoleText("2") \o <<"<t>">>,
     <<"<t>">> \o RoleText("1") \o <<"<t>">> \o RoleText("1") \o <<"<t>">>,
     <<"<t>">> \o Provider("1") \o <<",", ArnPrefix, ":role", "/A", "<t>">>,
     <<"<t>">> \o Provider("1") \o <<"<t>">>,
     <<"<t>">> \o RoleText("1") \o <<"<t">>}

\* The pages the IdP answers the credential POST with.
LoginResponses ==
    {Doc(<<SamlInput(B64(a))>>, FALSE) : a \in Assertions}
    \cup {Doc(<<Div>>, FALSE),
          Doc(<<SamlInput(EmptyStr)>>, FALSE),
          Doc(<<SamlInput(NoAttr)>>, FALSE),
          Doc(<<ErrorSpan(<<"x", "<", "/">>)>>, FALSE),
          Doc(<<SamlInput(EmptyStr), SamlInput(B64(<<"<t>">>))>>, FALSE),
          Doc(<<SamlInput(B64(<<"<t>">>)), ErrorSpan(<<"x", "<", "/">>)>>, FALSE),
          Doc(<<SamlInput(B64(<<"<t>">>)), ErrorSpan(<<"<", "/">>)>>, FALSE),
          Doc(<<SamlInput(B64(<<"<t>">>))>>, TRUE)}

\* ---------------------------------------------------------------- the state
VARIABLES
    config,              \* the module-level config the constructor sets
    params,              \* the params this session's constructor was given
    this_samlResponse,   \* this._samlResponse: null until a login caches it
    this_parser,         \* this._parser: the callbacks registered on it
    calls,               \* the calls made on the session, by call number
    posts,               \* credential POSTs issued so far
    writes,              \* assignments to this._samlResponse so far
    arg,                 \* pure-function specifications: the input
    ret                  \* pure-function specifications: the result

vars == <<config, params, this_samlResponse, this_parser, calls, posts, writes, arg, ret>>

CallIds == 1..MaxCalls
\* The calls of a session on which only getSamlResponse is called.
LoginIds == 1..MaxLogins

\* The callbacks on this._parser: none after sax.parser(...); afterwards the
\* closures (onopentag, onerror, onend) that the latest getLoginPath or
\* _login of some call assigned, which settle that call's promise.
NoHandlers == [op |-> "none", call |-> 0]
\* A registration that assigns nothing: the callbacks stay as they were.
RegisterNothing(parser, op, c) == parser
\* this._parser.onopentag = ...; .onerror = ...; .onend = ...
Register(parser, op, c) == [op |-> op, call |-> c]

Pending == [state |-> "pending", value |-> Undefined, error |-> NoError]
NoDoc == Doc(<<>>, FALSE)
NoPost == [url |-> Undefined, UserName |-> Undefined, Password |-> Undefined]

\* A call not made yet.  op is the public method called; pc is where the call
\* is: "get" and "post" while that request is in flight, "sts" while token
\* exchanges are outstanding, "done" once its promise has settled.  page and
\* body are the documents its GET and POST returned; login is what its
\* getSamlResponse promise settled with, hit whether that came from the cache,
\* seen the calls that had settled when getSamlResponse began, alone whether
\* no other POST was in flight when its own POST's response was handled.
\* pageBy and bodyBy are the callbacks that were on this._parser when page
\* and body were written to it; requests are the parameters of the
\* assumeRoleWithSAML calls issued, in the order of roles; order is the order
\* in which those calls settled.
NoCall ==
    [op |-> "none", pc |-> "idle", username |-> Undefined, password |-> Undefined,
     page |-> NoDoc, body |-> NoDoc, post |-> NoPost, login |-> Pending,
     hit |-> FALSE, seen |-> {}, alone |-> FALSE,
     pageBy |-> NoHandlers, bodyBy |-> NoHandlers,
     roles |-> <<>>, requests |-> <<>>, results |-> <<>>, waiting |-> {},
     order |-> <<>>, outcome |-> Pending]

Settled(c) == calls[c].pc = "done"
SettledCalls == {c \in DOMAIN calls : Settled(c)}

\* this._domain and url.resolve(this._domain, loginPath)
Domain == <<"https://sts.example.com">>
\* A resolve that keeps only the domain, whatever path it is given.
ResolveDropsPath(loginPath) == Domain
Resolve(loginPath) == Domain \o loginPath

\* The form _login posts.
Form(cfg, loginPath, username, password) ==
    [url |-> Resolve(loginPath),
     UserName |-> cfg.domain \o <<"\\">> \o username,
     Password |-> password]

\* The parameters assumeRole hands to sts.assumeRoleWithSAML, with the
\* two ARNs in each other's place.
assumeRoleParamsSwapped(roleArn, principalArn, samlResponse) ==
    [RoleArn |-> principalArn, PrincipalArn |-> roleArn, SAMLAssertion |-> samlResponse]
\* The parameters assumeRole hands to sts.assumeRoleWithSAML.
assumeRoleParams(roleArn, principalArn, samlResponse) ==
    [RoleArn |-> roleArn, PrincipalArn |-> principalArn, SAMLAssertion |-> samlResponse]

\* authenticate from the roles on, without the case of no roles: it waits
\* for exchanges though none was issued.
ExchangeAlwaysWaits(call, roles) ==
    [call EXCEPT !.pc = "sts", !.roles = roles,
                 !.requests = [i \in 1..Len(roles) |->
                                 assumeRoleParams(roles[i].roleArn, roles[i].principalArn,
                                                  call.login.value)],
                 !.results = [i \in 1..Len(roles) |-> NoAccount],
                 !.waiting = 1..Len(roles)]
\* authenticate from the roles on: roles.map issues one assumeRole per role,
\* each with the raw response getSamlResponse returned; Promise.all of no
\* promises resolves at once, and then so does authenticate.
Exchange(call, roles) ==
    IF roles = <<>>
    THEN [call EXCEPT !.pc = "done", !.outcome = Resolved(<<>>)]
    ELSE [call EXCEPT !.pc = "sts", !.roles = roles,
                      !.requests = [i \in 1..Len(roles) |->
                                      assumeRoleParams(roles[i].roleArn, roles[i].principalArn,
                                                       call.login.value)],
                      !.results = [i \in 1..Len(roles) |-> NoAccount],
                      !.waiting = 1..Len(roles)]

\* Results kept in the order the exchanges settle: the first free place.
StoreResultOnArrival(results, i, r) ==
    LET free == {k \in 1..Len(results) : ~results[k].defined}
    IN [results EXCEPT ![CHOOSE k \in free : \A j \in free : k <= j] = r]
\* Promise.all: the result of the i-th promise is the i-th of the results.
StoreResult(results, i, r) == [results EXCEPT ![i] = r]

\* The parse this._parser runs on a document: the callbacks on the parser
\* decide what is looked for; with no callbacks nothing settles.
Scan(parser, doc) ==
    IF parser.op = "getLoginPath" THEN ScanLoginPage(doc)
    ELSE IF parser.op = "_login" THEN ScanLoginResponse(doc)
    ELSE Pending

\* What follows getSamlResponse settling when authenticate does not stop at
\* a rejection: it goes on to parseRoles with what the rejection carries.
AfterLoginIgnoresRejection(call, login) ==
    LET c1 == [call EXCEPT !.login = login]
    IN IF call.op = "getSamlResponse"
       THEN [c1 EXCEPT !.pc = "done", !.outcome = login]
       ELSE LET parsed == parseRoles(login.value)
            IN IF parsed.state = "rejected"
               THEN [c1 EXCEPT !.pc = "done", !.outcome = parsed]
               ELSE Exchange(c1, parsed.value)

\* What follows getSamlResponse settling with login: the call itself settles
\* (a direct call, or a rejection), or authenticate goes on to parseRoles.
AfterLogin(call, login) ==
    LET c1 == [call EXCEPT !.login = login]
    IN IF call.op = "getSamlResponse" \/ login.state = "rejected"
       THEN [c1 EXCEPT !.pc = "done", !.outcome = login]
       ELSE LET parsed == parseRoles(login.value)
            IN IF parsed.state = "rejected"
               THEN [c1 EXCEPT !.pc = "done", !.outcome = parsed]
               ELSE Exchange(c1, parsed.value)

\* getSamlResponse without the look at this._samlResponse: every call posts.
BeginLoginNoCache(call, cache, cfg, loginPath) ==
    LET c1 == [call EXCEPT !.seen = SettledCalls]
    IN IF loginPath = Undefined
       THEN AfterLogin(c1, Rejected(TypeError))
       ELSE [c1 EXCEPT !.pc = "post",
                       !.post = Form(cfg, loginPath, call.username, call.password)]

\* getSamlResponse(loginPath, username, password) up to the POST: the cached
\* response when it is truthy; else _login, where url.resolve throws a
\* TypeError on an undefined loginPath and the POST is issued otherwise.
BeginLogin(call, cache, cfg, loginPath) ==
    LET c1 == [call EXCEPT !.seen = SettledCalls]
    IN IF Truthy(cache)
       THEN AfterLogin([c1 EXCEPT !.hit = TRUE], Resolved(cache))
       ELSE IF loginPath = Undefined
       THEN AfterLogin(c1, Rejected(TypeError))
       ELSE [c1 EXCEPT !.pc = "post",
                       !.post = Form(cfg, loginPath, call.username, call.password)]

\* ------------------------------------------------------------------ Init
\* The state after new Saml(params).
Init ==
    /\ config \in Configs
    /\ params = config
    /\ this_samlResponse = Null
    /\ this_parser = NoHandlers
    /\ calls = [c \in CallIds \cup LoginIds |-> NoCall]
    /\ posts = 0
    /\ writes = 0
    /\ arg = NoDoc
    /\ ret = Pending

\* The next call number: calls are numbered in the order they are made.
Free(c) == calls[c].op = "none" /\ \A d \in 1..(c - 1) : calls[d].op # "none"

\* ---------------------------------------------------------------- actions
\* saml.getLoginPath(): the GET is issued.
CallGetLoginPath(c) ==
    /\ Free(c)
    /\ calls' = [calls EXCEPT ![c] = [@ EXCEPT !.op = "getLoginPath", !.pc = "get"]]
    /\ UNCHANGED <<config, params, this_parser, this_samlResponse, posts, writes, arg, ret>>

\* saml.authenticate(username, password): it begins with getLoginPath().
CallAuthenticate(c) ==
    /\ Free(c)
    /\ \E u \in Usernames, pw \in Passwords :
        calls' = [calls EXCEPT ![c] = [@ EXCEPT !.op = "authenticate", !.pc = "get",
                                                !.username = u, !.password = pw]]
    /\ UNCHANGED <<config, params, this_parser, this_samlResponse, posts, writes, arg, ret>>

\* saml.getSamlResponse(loginPath, username, password), called directly.
CallGetSamlResponse(c) ==
    /\ Free(c)
    /\ \E path \in LoginPaths, u \in Usernames, pw \in Passwords :
        LET call == BeginLogin([calls[c] EXCEPT !.op = "getSamlResponse",
                                               !.username = u, !.password = pw],
                               this_samlResponse, config, path)
        IN /\ calls' = [calls EXCEPT ![c] = call]
           /\ posts' = IF call.pc = "post" THEN posts + 1 ELSE posts
    /\ UNCHANGED <<config, params, this_parser, this_samlResponse, writes, arg, ret>>

\* The GET fails: fetch rejects, and so do getLoginPath and authenticate.
GetFails(c) ==
    /\ calls[c].pc = "get"
    /\ calls' = [calls EXCEPT ![c] = [@ EXCEPT !.pc = "done",
                                               !.outcome = Rejected(FetchError)]]
    /\ UNCHANGED <<config, params, this_parser, this_samlResponse, posts, writes, arg, ret>>

\* The GET answers with a page: in one step the callbacks are assigned and
\* the page is written to the parser and scanned; getLoginPath settles, and
\* authenticate goes on to getSamlResponse with the path found.
GetAnswers(c) ==
    /\ calls[c].pc = "get"
    /\ \E page \in LoginPages :
        LET parser == Register(this_parser, "getLoginPath", c)
            found == Scan(parser, page)
            c1 == [calls[c] EXCEPT !.page = page, !.pageBy = parser]
            call == IF calls[c].op = "getLoginPath" \/ found.state = "rejected"
                    THEN [c1 EXCEPT !.pc = "done", !.outcome = found]
                    ELSE BeginLogin(c1, this_samlResponse, config, found.value)
        IN /\ calls' = [calls EXCEPT ![c] = call]
           /\ this_parser' = parser
           /\ posts' = IF call.pc = "post" THEN posts + 1 ELSE posts
    /\ UNCHANGED <<config, params, this_samlResponse, writes, arg, ret>>

\* The POST fails: _login rejects, nothing is cached.
PostFails(c) ==
    /\ calls[c].pc = "post"
    /\ calls' = [calls EXCEPT ![c] = AfterLogin(@, Rejected(FetchError))]
    /\ UNCHANGED <<config, params, this_parser, this_samlResponse, posts, writes, arg, ret>>

\* The POST answers with a page: in one step the callbacks are assigned and
\* the page is written to the parser and scanned; when _login resolves, the
\* value is assigned to this._samlResponse and the call goes on.
PostAnswers(c) ==
    /\ calls[c].pc = "post"
    /\ \E body \in LoginResponses :
        LET parser == Register(this_parser, "_login", c)
            scanned == Scan(parser, body)
            c1 == [calls[c] EXCEPT
                     !.body = body, !.bodyBy = parser,
                     !.alone = \A d \in DOMAIN calls \ {c} : calls[d].pc # "post"]
        IN /\ calls' = [calls EXCEPT ![c] = AfterLogin(c1, scanned)]
           /\ this_parser' = parser
           /\ IF scanned.state = "resolved"
              THEN this_samlResponse' = scanned.value /\ writes' = writes + 1
              ELSE UNCHANGED <<this_samlResponse, writes>>
    /\ UNCHANGED <<config, params, posts, arg, ret>>

\* One token exchange settles; assumeRole resolves with the account or with
\* undefined.  When it was the last one outstanding, Promise.all resolves and
\* authenticate filters and names the accounts.
ExchangeSettles(c, i, ok) ==
    /\ calls[c].pc = "sts"
    /\ i \in calls[c].waiting
    /\ LET results == StoreResult(calls[c].results, i,
                                   assumeRoleResult(calls[c].roles[i].roleArn, ok, ToString(i)))
           waiting == calls[c].waiting \ {i}
           c1 == [calls[c] EXCEPT !.results = results, !.waiting = waiting,
                                  !.order = Append(@, i)]
       IN calls' = [calls EXCEPT ![c] =
            IF waiting # {} THEN c1
            ELSE [c1 EXCEPT !.pc = "done",
                            !.outcome = AccountsList(config, FilterBoolean(results, 1))]]
    /\ UNCHANGED <<config, params, this_parser, this_samlResponse, posts, writes, arg, ret>>

Next ==
    \E c \in CallIds :
        \/ CallGetLoginPath(c)
        \/ CallAuthenticate(c)
        \/ CallGetSamlResponse(c)
        \/ GetFails(c)
        \/ GetAnswers(c)
        \/ PostFails(c)
        \/ PostAnswers(c)
        \/ \E i \in 1..MaxTexts, ok \in BOOLEAN : ExchangeSettles(c, i, ok)

Spec == Init /\ [][Next]_vars

\* A request of call c completes, with success or with failure: its GET,
\* its POST, or one of its token exchanges.
Completes(c) ==
    \/ GetFails(c) \/ GetAnswers(c)
    \/ PostFails(c) \/ PostAnswers(c)
    \/ \E i \in 1..MaxTexts, ok \in BOOLEAN : ExchangeSettles(c, i, ok)
\* The two calls of the fair specification; neither is left for ever with a
\* request that could complete.
ChainCalls == {1, 2}
Completion == \A c \in ChainCalls : WF_vars(Completes(c))
\* One getSamlResponse call, which may fill the cache, and then one
\* authenticate call, on a session with a mapping; every request completes.
ChainInit ==
    Init /\ config.accountMapping = Mapping([id \in {<<"1">>} |-> <<"prod">>])
ChainNext ==
    \/ CallGetSamlResponse(1)
    \/ PostFails(1)
    \/ PostAnswers(1)
    \/ CallAuthenticate(2)
    \/ GetFails(2)
    \/ GetAnswers(2)
    \/ PostFails(2)
    \/ PostAnswers(2)
    \/ \E i \in 1..MaxTexts, ok \in BOOLEAN : ExchangeSettles(2, i, ok)
FairSpec == ChainInit /\ [][ChainNext]_vars /\ Completion

\* ------------------------------------------------- a second session
\* The params of another session of the same module.
OtherParams ==
    [domain |-> <<"OTHER">>,
     accountMapping |-> Mapping([id \in {<<"1">>} |-> <<"dev">>])]
\* new Saml(OtherParams), at any time: the constructor assigns the
\* module-level config; the fields of this session are not touched.
Construct ==
    /\ config # OtherParams
    /\ config' = OtherParams
    /\ UNCHANGED <<params, this_samlResponse, this_parser, calls, posts, writes, arg, ret>>

\* One authenticate call on this session, and the other session's
\* construction.
SessionsNext ==
    \/ Construct
    \/ CallAuthenticate(1)
    \/ GetFails(1)
    \/ GetAnswers(1)
    \/ PostFails(1)
    \/ PostAnswers(1)
    \/ \E i \in 1..MaxTexts, ok \in BOOLEAN : ExchangeSettles(1, i, ok)
SessionsSpec == Init /\ [][SessionsNext]_vars

\* ------------------------------------------------- logins only
\* getSamlResponse called up to MaxLogins times on one session.
LoginsNext ==
    \E c \in LoginIds :
        \/ CallGetSamlResponse(c)
        \/ PostFails(c)
        \/ PostAnswers(c)
\* getSamlResponse reads config.domain alone: one configuration suffices.
LoginsInit == Init /\ config.accountMapping = NoMapping
LoginsSpec == LoginsInit /\ [][LoginsNext]_vars

\* ------------------------------------------- the scanners on their own
\* Each of these specifications draws one document and applies one of the
\* three parses to it; the parses read nothing of the session, whose
\* variables stay as constructed.
Quiet ==
    /\ config = [domain |-> <<"CORP">>, accountMapping |-> NoMapping]
    /\ params = config
    /\ this_samlResponse = Null
    /\ this_parser = NoHandlers
    /\ calls = [c \in CallIds \cup LoginIds |-> NoCall]
    /\ posts = 0
    /\ writes = 0
    /\ ret = Pending

\* Login pages of up to MaxTags tags.
PageTags ==
    {LoginForm(n, a) : n \in {"form", "FORM"}, a \in {<<"/a">>, <<"/b">>}}
    \cup {LoginForm("form", NoAttr),
          LoginForm("div", <<"/c">>),
          Tag("form", <<"other">>, NoAttr, <<"/d">>, NoAttr, EmptyStr),
          Div}
PageDocs == {Doc(t, e) : t \in SeqsUpTo(PageTags, MaxTags), e \in BOOLEAN}

PathInit == Quiet /\ arg \in PageDocs
\* The parse inside getLoginPath.
ApplyScanLoginPage ==
    /\ ret = Pending
    /\ ret' = ScanLoginPage(arg)
    /\ UNCHANGED <<config, params, this_parser, this_samlResponse, calls, posts, writes, arg>>
PathSpec == PathInit /\ [][ApplyScanLoginPage]_vars

\* Login responses: any raw text up to MaxTail characters behind an
\* errorText element, alone or next to a SAMLResponse input, another
\* errorText element or another tag.
TailChars == {"x", "<", "/", "LF"}
Tails == SeqsUpTo(TailChars, MaxTail)
PlainTags ==
    {SamlInput(<<"b64:<t>">>), SamlInput(EmptyStr), Div, ErrorSpan(<<"x", "<", "/">>)}
ResponseTags == {ErrorSpan(t) : t \in Tails} \cup PlainTags
ResponseDocs ==
    {Doc(t, e) : t \in SeqsUpTo(ResponseTags, 1), e \in BOOLEAN}
    \cup {Doc(<<a, b>>, FALSE) : a \in ResponseTags, b \in PlainTags}
    \cup {Doc(<<b, a>>, FALSE) : a \in ResponseTags, b \in PlainTags}

LoginScanInit == Quiet /\ arg \in ResponseDocs
\* The parse inside _login.
ApplyScanLoginResponse ==
    /\ ret = Pending
    /\ ret' = ScanLoginResponse(arg)
    /\ UNCHANGED <<config, params, this_parser, this_samlResponse, calls, posts, writes, arg>>
LoginScanSpec == LoginScanInit /\ [][ApplyScanLoginResponse]_vars

\* Assertions: up to MaxTexts text nodes of up to MaxTextLen tokens each,
\* every node between two pieces of markup; raw is the base64 handed to
\* parseRoles.
RoleTokens == {ArnPrefix, ",", "/A"}
RoleTexts == SeqsUpTo(RoleTokens, MaxTextLen) \ {<<>>}
RECURSIVE Serialize(_, _)
Serialize(texts, i) ==
    IF i > Len(texts) THEN <<"<t>">>
    ELSE <<"<t>">> \o texts[i] \o Serialize(texts, i + 1)
AssertionInputs ==
    {[texts |-> t, truncated |-> e,
      raw |-> B64(Serialize(t, 1) \o (IF e THEN <<"<t">> ELSE <<>>))] :
        t \in SeqsUpTo(RoleTexts, MaxTexts), e \in BOOLEAN}

RolesInit == Quiet /\ arg \in AssertionInputs
\* parseRoles(samlRawResponse)
ApplyParseRoles ==
    /\ ret = Pending
    /\ ret' = parseRoles(arg.raw)
    /\ UNCHANGED <<config, params, this_parser, this_samlResponse, calls, posts, writes, arg>>
RolesSpec == RolesInit /\ [][ApplyParseRoles]_vars

\* ================================================================= claims
\* What the claims say about a document, stated on the document itself.
IsLoginForm(tag) == Lower(tag.name) = "form" /\ tag.id = <<"loginForm">>
IsSamlInput(tag) == Lower(tag.name) = "input" /\ tag.nm = <<"SAMLResponse">>
IsErrorText(tag) == tag.id = <<"errorText">>
LoginFormAt(doc) == {i \in 1..Len(doc.tags) : IsLoginForm(doc.tags[i])}
SamlInputAt(doc) == {i \in 1..Len(doc.tags) : IsSamlInput(doc.tags[i])}
ErrorTextAt(doc) == {i \in 1..Len(doc.tags) : IsErrorText(doc.tags[i])}
HasLoginForm(doc) == LoginFormAt(doc) # {}
HasSamlInput(doc) == SamlInputAt(doc) # {}
HasErrorText(doc) == ErrorTextAt(doc) # {}

\* The calls that are, or run, a login, and those whose POST has been answered.
IsLogin(c) == calls[c].op \in {"getSamlResponse", "authenticate"}
Posted(c) == calls[c].post # NoPost
Answered(c) == Posted(c) /\ calls[c].login.state # "pending" /\ calls[c].login.error # FetchError
Succeeded(c) == {i \in 1..Len(calls[c].results) : calls[c].results[i].defined}
Exchanged(c) ==
    calls[c].op = "authenticate" /\ Settled(c) /\ calls[c].roles # <<>>

\* The digits directly before the first ":role" of an ARN that has them.
RoleAt(arn) == MinOf({i \in 1..Len(arn) : arn[i] = ":role"})
WellFormed(arn) ==
    /\ arn # Undefined
    /\ \E i \in 2..Len(arn) : arn[i] = ":role"
    /\ RoleAt(arn) > 1
    /\ arn[RoleAt(arn) - 1] \in Digits
RECURSIVE DigitsBefore(_, _)
DigitsBefore(arn, i) ==
    IF i >= 1 /\ arn[i] \in Digits THEN DigitsBefore(arn, i - 1) \o <<arn[i]>> ELSE <<>>
ExpectedAccountId(arn) == DigitsBefore(arn, RoleAt(arn) - 1)
AllWellFormed(c) ==
    \A i \in 1..Len(calls[c].roles) : WellFormed(calls[c].roles[i].roleArn)

\* C1: given N role candidates, whatever exchanges succeed, authenticate
\* resolves with one account per success, in number equal to the successes
\* (the empty list when all fail); checked for role ARNs that carry an
\* account id.
C1_ResolvesWithSuccesses ==
    \A c \in CallIds :
        (Exchanged(c) /\ AllWellFormed(c)) =>
            /\ calls[c].outcome.state = "resolved"
            /\ Len(calls[c].outcome.value) = Cardinality(Succeeded(c))
            /\ \A i \in Succeeded(c) :
                \E k \in 1..Len(calls[c].outcome.value) :
                    calls[c].outcome.value[k].Arn = calls[c].roles[i].roleArn

\* The value of the last SAMLResponse input of a response that has one.
LastSamlValue(doc) == doc.tags[MaxOf(SamlInputAt(doc))].value

\* C2, as stated, for responses the scanner reads to their end: a login whose
\* response holds a SAMLResponse input with value B64 returns B64, and a login call made after it has returned gets
\* the identical value without a second credential POST.
C2_LoginReturnsAndCaches ==
    \A c \in CallIds :
        (Answered(c) /\ HasSamlInput(calls[c].body) /\ ~calls[c].body.truncated
            /\ LastSamlValue(calls[c].body) # Undefined) =>
            /\ calls[c].login = Resolved(LastSamlValue(calls[c].body))
            /\ \A d \in CallIds :
                (IsLogin(d) /\ c \in calls[d].seen /\ calls[d].login.state # "pending") =>
                    /\ calls[d].login = calls[c].login
                    /\ ~Posted(d)

\* The error message of a response: the text _login extracts behind its last
\* errorText element, empty when it has none.
LastErrorMessage(doc) ==
    IF HasErrorText(doc) THEN ErrorTextOf(doc.tags[MaxOf(ErrorTextAt(doc))])
    ELSE EmptyStr

\* C2, amended: when the response is scanned to its end without a scanner
\* error and its error message is empty, login returns the value of its last
\* SAMLResponse input; and when that value is a non-empty string and no other
\* login's POST was in flight as the response arrived, every login call made
\* after that call has settled returns the identical value from the cache,
\* whatever its arguments, and issues no POST.
C2_LoginReturnsAndCachesAmended ==
    \A c \in CallIds :
        (Answered(c) /\ HasSamlInput(calls[c].body)
            /\ ~calls[c].body.truncated /\ LastErrorMessage(calls[c].body) = EmptyStr) =>
            /\ calls[c].login = Resolved(LastSamlValue(calls[c].body))
            /\ (Truthy(calls[c].login.value) /\ calls[c].alone) =>
                /\ this_samlResponse = calls[c].login.value
                /\ \A d \in CallIds :
                    (IsLogin(d) /\ c \in calls[d].seen) =>
                        /\ calls[d].hit
                        /\ calls[d].login = calls[c].login
                        /\ ~Posted(d)

\* C2's case: a login cached a non-empty value and a later direct call, made
\* for another user, was answered from the cache.
C2_Witness ==
    \E c, d \in CallIds :
        /\ Answered(c) /\ calls[c].alone /\ Truthy(calls[c].login.value)
        /\ calls[c].login.state = "resolved"
        /\ calls[d].op = "getSamlResponse" /\ c \in calls[d].seen /\ Settled(d)
        /\ calls[d].username # calls[c].username
        /\ calls[d].login = calls[c].login

\* C3: once this._samlResponse holds a value, no later step changes it (and
\* so it is written at most once), also when two logins overlap.
C3_CacheNeverRewritten ==
    [][Truthy(this_samlResponse) => this_samlResponse' = this_samlResponse]_vars

\* C4: when the GET fails or the page has no form with id loginForm,
\* getLoginPath rejects.
C4_NoFormRejects ==
    \A c \in CallIds :
        (calls[c].op = "getLoginPath" /\ Settled(c) /\ ~HasLoginForm(calls[c].page)) =>
            calls[c].outcome.state = "rejected"

\* C5: when the login response holds neither a SAMLResponse input nor an
\* errorText element, login rejects, and authenticate rejects with it
\* without parsing roles.
C5_UnknownResponseRejects ==
    \A c \in CallIds :
        (Answered(c) /\ ~HasSamlInput(calls[c].body) /\ ~HasErrorText(calls[c].body)) =>
            /\ calls[c].login.state = "rejected"
            /\ calls[c].outcome = calls[c].login

\* The text the claim expects as the message: the window behind the element,
\* cut at the first "</" in it (the whole window when there is none).
FirstCloses(d) == {k \in 0..(Len(d) - 2) : d[k + 1] = "<" /\ d[k + 2] = "/"}
CutAtFirstClose(d) ==
    IF FirstCloses(d) = {} THEN d ELSE SubSeq(d, 1, MinOf(FirstCloses(d)))
TheErrorTag(doc) == doc.tags[CHOOSE i \in ErrorTextAt(doc) : TRUE]

\* C6: a response with an errorText element and no SAMLResponse input makes
\* login fail with the text directly behind that element, cut at the first
\* "</" within the 300 characters behind it, whatever that text is (checked
\* for responses with one errorText element that are scanned to their end,
\* and for text that is not empty).
C6_MessageCutAtFirstClose ==
    (ret.state # "pending" /\ ~arg.truncated /\ ~HasSamlInput(arg)
        /\ Cardinality(ErrorTextAt(arg)) = 1
        /\ CutAtFirstClose(Substr(TheErrorTag(arg).tail, 0, 300)) # EmptyStr) =>
        /\ ret.state = "rejected"
        /\ ret.error = Error(CutAtFirstClose(Substr(TheErrorTag(arg).tail, 0, 300)))

\* C7: for a page with at least one loginForm form, getLoginPath returns the
\* action of the first such form in document order (pages scanned to their
\* end).
C7_FirstLoginFormWins ==
    (ret.state # "pending" /\ ~arg.truncated /\ HasLoginForm(arg)) =>
        ret = Resolved(arg.tags[MinOf(LoginFormAt(arg))].action)

\* What the claim expects of one matching text node: the text before its
\* first comma and all of the text after that comma (undefined when the node
\* has no comma).
CommaAt(text) == {i \in 1..Len(text) : text[i] = ","}
ExpectedRole(text) ==
    IF CommaAt(text) = {} THEN [principalArn |-> text, roleArn |-> Undefined]
    ELSE [principalArn |-> SubSeq(text, 1, MinOf(CommaAt(text)) - 1),
          roleArn |-> SubSeq(text, MinOf(CommaAt(text)) + 1, Len(text))]
RECURSIVE ExpectedRoles(_, _)
ExpectedRoles(texts, i) ==
    IF i > Len(texts) THEN <<>>
    ELSE (IF texts[i][1] = ArnPrefix THEN <<ExpectedRole(texts[i])>> ELSE <<>>)
         \o ExpectedRoles(texts, i + 1)

\* C8: parseRoles returns, in document order, one candidate per text node
\* that starts with arn:aws:iam::, split at the node's first comma only; no
\* matching node gives the empty list (assertions parsed to their end).
C8_RolesSplitAtFirstComma ==
    (ret.state # "pending" /\ ~arg.truncated) =>
        /\ ret.state = "resolved"
        /\ ret.value = ExpectedRoles(arg.texts, 1)

\* The name the claim expects for an account id: the mapped value when the
\* id is a key of the mapping, the id itself otherwise (also without mapping).
ExpectedName(accountMapping, accountId) ==
    IF accountMapping.defined /\ accountId \in DOMAIN accountMapping.entries
    THEN accountMapping.entries[accountId]
    ELSE accountId
\* C9: every account of a successful exchange is returned named by the
\* mapping when its account id is a key (whatever the value), and by the
\* account id otherwise, also when the configuration has no accountMapping
\* (role ARNs with digits before ":role").
C9_NamesFollowMapping ==
    \A c \in CallIds :
        (Exchanged(c) /\ AllWellFormed(c)) =>
            /\ calls[c].outcome.state = "resolved"
            /\ \A k \in 1..Len(calls[c].outcome.value) :
                calls[c].outcome.value[k].name =
                    ExpectedName(config.accountMapping,
                                 ExpectedAccountId(calls[c].outcome.value[k].Arn))

\* C10: once login has returned, authenticate rejects only when decoding or
\* role parsing fails, whichever exchanges succeed; checked for role ARNs
\* that carry an account id.
C10_RejectsOnlyOnParseFailure ==
    \A c \in CallIds :
        (calls[c].op = "authenticate" /\ Settled(c) /\ AllWellFormed(c)
            /\ calls[c].login.state = "resolved"
            /\ calls[c].outcome.state = "rejected") =>
            parseRoles(calls[c].login.value).state = "rejected"

\* C11: the list authenticate resolves with names no role ARN twice, also
\* when the assertion lists the same pair in two text nodes and both
\* exchanges succeed.
C11_AccountsDeduplicated ==
    \A c \in CallIds :
        (calls[c].op = "authenticate" /\ calls[c].outcome.state = "resolved") =>
            \A j, k \in 1..Len(calls[c].outcome.value) :
                j # k => calls[c].outcome.value[j].Arn # calls[c].outcome.value[k].Arn

\* The stage at which an authenticate call failed, read off what it fetched.
GetFailed(c) == Settled(c) /\ calls[c].page = NoDoc
PageScanFailed(c) == calls[c].page.truncated
PostFailed(c) == Posted(c) /\ Settled(c) /\ calls[c].body = NoDoc
BodyScanFailed(c) == Posted(c) /\ calls[c].body.truncated
ErrorShown(c) ==
    /\ Posted(c) /\ calls[c].body # NoDoc /\ ~calls[c].body.truncated
    /\ LastErrorMessage(calls[c].body) # EmptyStr
NoLaterRequest(c) == calls[c].requests = <<>> /\ calls[c].pc # "sts"

\* C12: when the GET of authenticate fails, or the page cannot be scanned,
\* authenticate rejects with that error and issues neither the credential
\* POST nor any token exchange; when its login fails (request error, scanner
\* error, or an errorText message) it rejects with that error and issues no
\* token exchange.
C12_FailureStopsTheChain ==
    \A c \in CallIds :
        calls[c].op = "authenticate" =>
            /\ GetFailed(c) =>
                /\ calls[c].outcome = Rejected(FetchError)
                /\ ~Posted(c) /\ NoLaterRequest(c)
            /\ PageScanFailed(c) =>
                /\ calls[c].outcome = Rejected(SaxError)
                /\ ~Posted(c) /\ NoLaterRequest(c)
            /\ PostFailed(c) =>
                /\ calls[c].outcome = Rejected(FetchError)
                /\ NoLaterRequest(c)
            /\ BodyScanFailed(c) =>
                /\ calls[c].outcome = Rejected(SaxError)
                /\ NoLaterRequest(c)
            /\ ErrorShown(c) =>
                /\ calls[c].outcome = Rejected(Error(LastErrorMessage(calls[c].body)))
                /\ NoLaterRequest(c)
\* One authenticate call has failed at its GET and another at its login, on
\* an errorText message next to a SAMLResponse input.
C12_Witness ==
    \E c, d \in CallIds :
        /\ calls[c].op = "authenticate" /\ GetFailed(c)
        /\ calls[d].op = "authenticate" /\ ErrorShown(d) /\ HasSamlInput(calls[d].body)
        /\ Settled(d)

\* A property read of a JavaScript object: undefined for a missing property.
Get(obj, field) == IF field \in DOMAIN obj THEN obj[field] ELSE Undefined
\* chooseAccount of the command line: the account at the index typed.
chooseAccount(accounts, index) == accounts[index]
\* What the command line hands to parser.updateProfile for the account chosen.
updateProfileArgs(chosenAccount) ==
    [aws_access_key_id |-> Get(chosenAccount, "AccessKeyId"),
     aws_secret_access_key |-> Get(chosenAccount, "SecretAccessKey"),
     aws_session_token |-> Get(chosenAccount, "SessionToken")]

\* C13: whichever account of the list authenticate resolved with is chosen,
\* the three values the command line writes to the profile are the
\* credentials the token exchange returned for that account's role, and none
\* of them is undefined.
C13_ChosenAccountCarriesCredentials ==
    \A c \in CallIds :
        (calls[c].op = "authenticate" /\ calls[c].outcome.state = "resolved") =>
            \A index \in 1..Len(calls[c].outcome.value) :
                LET written == updateProfileArgs(chooseAccount(calls[c].outcome.value, index))
                    creds == FilterBoolean(calls[c].results, 1)[index].creds
                IN /\ written.aws_access_key_id = creds.AccessKeyId
                   /\ written.aws_secret_access_key = creds.SecretAccessKey
                   /\ written.aws_session_token = creds.SessionToken
                   /\ Undefined \notin {written.aws_access_key_id,
                                        written.aws_secret_access_key,
                                        written.aws_session_token}

\* C14: within one authenticate call the credential POST is issued only after
\* the GET has been answered and its page scanned, to the path that scan
\* found; and token exchanges are issued only after the login response has
\* been scanned (or the cached response returned) and the roles parsed from
\* what login returned.
C14_StagesInOrder ==
    \A c \in CallIds :
        calls[c].op = "authenticate" =>
            /\ calls[c].pc = "get" =>
                ~Posted(c) /\ calls[c].login = Pending /\ calls[c].requests = <<>>
            /\ Posted(c) =>
                /\ calls[c].page # NoDoc
                /\ ScanLoginPage(calls[c].page).state = "resolved"
                /\ calls[c].post.url = Domain \o ScanLoginPage(calls[c].page).value
            /\ calls[c].pc = "post" =>
                calls[c].login = Pending /\ calls[c].requests = <<>>
            /\ calls[c].requests # <<>> =>
                /\ calls[c].page # NoDoc
                /\ calls[c].hit \/ (Posted(c) /\ calls[c].body # NoDoc
                                    /\ calls[c].login = ScanLoginResponse(calls[c].body))
                /\ calls[c].login.state = "resolved"
                /\ parseRoles(calls[c].login.value) = Resolved(calls[c].roles)
\* An authenticate call has gone through GET, POST and role parsing and has
\* its token exchanges outstanding.
C14_Witness ==
    \E c \in CallIds :
        /\ calls[c].op = "authenticate" /\ Posted(c) /\ ~calls[c].hit
        /\ calls[c].pc = "sts" /\ Len(calls[c].requests) = 2

\* C15: authenticate issues one token exchange per role candidate parsed
\* from the login response, the i-th carrying the i-th candidate's roleArn
\* and principalArn and the raw base64 response login returned, and all of
\* them are issued before any of them has settled.
C15_OneExchangePerCandidate ==
    \A c \in CallIds :
        (calls[c].op = "authenticate" /\ calls[c].login.state = "resolved") =>
            LET parsed == parseRoles(calls[c].login.value)
                candidates == calls[c].roles
            IN parsed.state = "resolved" =>
                /\ candidates = parsed.value
                /\ Len(calls[c].requests) = Len(candidates)
                /\ \A i \in 1..Len(candidates) :
                     /\ calls[c].requests[i].RoleArn = candidates[i].roleArn
                     /\ calls[c].requests[i].PrincipalArn = candidates[i].principalArn
                     /\ calls[c].requests[i].SAMLAssertion = calls[c].login.value
                /\ calls[c].waiting \cup {calls[c].order[k] : k \in 1..Len(calls[c].order)}
                     = 1..Len(candidates)
\* Two exchanges have been issued for two different candidates, and one of
\* them has settled.
C15_Witness ==
    \E c \in CallIds :
        /\ calls[c].op = "authenticate" /\ calls[c].pc = "sts"
        /\ Len(calls[c].requests) = 2 /\ Len(calls[c].order) = 1
        /\ calls[c].requests[1].RoleArn # calls[c].requests[2].RoleArn
        /\ calls[c].requests[1].RoleArn # calls[c].requests[1].PrincipalArn

\* C16: every document written to the session's parser is scanned from start
\* to end with the callbacks of the operation and call that fetched it, also
\* while other calls of the session are in flight: the page of a call with
\* that call's getLoginPath callbacks, the login response with that call's
\* _login callbacks, and the call's promise settles with that scan's result.
C16_ScansDoNotOverlap ==
    \A c \in CallIds :
        /\ calls[c].page # NoDoc =>
            /\ calls[c].pageBy = [op |-> "getLoginPath", call |-> c]
            /\ calls[c].op = "getLoginPath" =>
                calls[c].outcome = ScanLoginPage(calls[c].page)
        /\ calls[c].body # NoDoc =>
            /\ calls[c].bodyBy = [op |-> "_login", call |-> c]
            /\ calls[c].login = ScanLoginResponse(calls[c].body)
\* Two logins were in flight together: the response of one was scanned by
\* the parser last, after the page of the other, whose POST is still out.
C16_Witness ==
    \E c, d \in CallIds :
        /\ c # d
        /\ calls[c].body # NoDoc /\ this_parser = [op |-> "_login", call |-> c]
        /\ calls[d].op = "authenticate" /\ calls[d].pc = "post"
        /\ calls[d].page # NoDoc

\* C17: the domain prefix of the UserName a session posts, and the mapping by
\* which it names the accounts it returns, are those of the params the
\* session was constructed with, also when another session is constructed
\* with other params before or during the session's authenticate call.
C17_SessionsKeepTheirConfiguration ==
    \A c \in CallIds :
        /\ Posted(c) =>
            calls[c].post.UserName = params.domain \o <<"\\">> \o calls[c].username
        /\ (calls[c].op = "authenticate" /\ calls[c].outcome.state = "resolved") =>
            \A k \in 1..Len(calls[c].outcome.value) :
                calls[c].outcome.value[k].name =
                    NameOf(params.accountMapping, AccountIdOf(calls[c].outcome.value[k].Arn))

\* The role ARNs of the candidates whose exchange succeeded, in the order of
\* the candidates in the document.
RECURSIVE ArnsOfSucceeded(_, _)
ArnsOfSucceeded(c, i) ==
    IF i > Len(calls[c].roles) THEN <<>>
    ELSE (IF i \in Succeeded(c) THEN <<calls[c].roles[i].roleArn>> ELSE <<>>)
         \o ArnsOfSucceeded(c, i + 1)

\* C18: the accounts authenticate resolves with are in the document order of
\* their role candidates, in whatever order the exchanges settled.
C18_AccountsInDocumentOrder ==
    \A c \in CallIds :
        (calls[c].op = "authenticate" /\ calls[c].outcome.state = "resolved") =>
            [k \in 1..Len(calls[c].outcome.value) |-> calls[c].outcome.value[k].Arn]
                = ArnsOfSucceeded(c, 1)
\* The exchange of the second candidate settled before that of the first,
\* both succeeded, and authenticate resolved with two different accounts.
C18_Witness ==
    \E c \in CallIds :
        /\ calls[c].op = "authenticate" /\ calls[c].outcome.state = "resolved"
        /\ calls[c].order = <<2, 1>>
        /\ Len(calls[c].outcome.value) = 2
        /\ calls[c].outcome.value[1].Arn # calls[c].outcome.value[2].Arn

\* The calls whose login has begun, those whose login failed after its POST,
\* and those whose POST was answered with a response login resolved with.
LoginBegan(c) == IsLogin(c) /\ (calls[c].pc = "post" \/ calls[c].login # Pending)
LoginFailed(c) == Posted(c) /\ calls[c].login.state = "rejected"
LoginCached(c) == calls[c].body # NoDoc /\ calls[c].login.state = "resolved"

\* The first login call made after call c has settled.
NextLoginAfter(c, d) ==
    /\ LoginBegan(d) /\ c \in calls[d].seen
    /\ \A e \in 1..(d - 1) : e # c => c \notin calls[e].seen

C20_AuthenticateSettlesOnce ==
    /\ \A c \in CallIds : (calls[c].op = "authenticate") ~> Settled(c)
    /\ [][\A c \in CallIds :
            /\ Settled(c) => calls'[c] = calls[c]
            /\ Settled(c)' <=> calls'[c].outcome # Pending
            /\ (calls'[c].op = "authenticate" /\ ~Settled(c)') =>
                \/ calls'[c].pc \in {"get", "post"}
                \/ calls'[c].pc = "sts" /\ calls'[c].waiting # {}
            /\ (calls'[c].op = "authenticate" /\ calls'[c].outcome.state = "resolved") =>
                /\ calls'[c].waiting = {}
                /\ Len(calls'[c].order) = Len(calls'[c].requests)]_vars
\* An authenticate call has resolved after both of its exchanges settled,
\* the first of them last.
C20_Witness ==
    \E c \in CallIds :
        /\ calls[c].op = "authenticate" /\ calls[c].outcome.state = "resolved"
        /\ calls[c].order = <<2, 1>> /\ calls[c].waiting = {}
        /\ Len(calls[c].outcome.value) = 1

====
